---- MODULE Spec2Model ----
(***************************************************************************)
(* Model of asset.py, the Client Asset Report Generator.                   *)
(*                                                                         *)
(* Text is a sequence of one-character strings.  The rupee sign is the     *)
(* single character written "Rs" here, so that the module stays ASCII.     *)
(* A float is a record: a finite decimal m / 10^d kept canonical (no       *)
(* trailing zero in the fraction), an infinity with its sign in m, or a    *)
(* NaN.  Decimal arithmetic is exact; the binary rounding error of an      *)
(* IEEE double is not modelled.                                            *)
(***************************************************************************)
EXTENDS Integers, Sequences, FiniteSets, TLC

VARIABLES
    cell,             \* SpecNorm: the text of one asset-value cell of the sheet
    norm_out,         \* SpecNorm: what load + clean_number made of it
    amount,           \* SpecFmt: the argument of format_indian_currency
    formatted,        \* SpecFmt: its result
    raw,              \* uploaded_file: the sheet as read (dtype=str), or NoFile
    df,               \* the parsed dataset
    selected_client,  \* the "Preview Client" selectbox
    client_df,        \* the preview's allocation rows
    preview_out,      \* the preview's download button, st.error, or nothing
    selected_clients, \* the "Select Clients" multiselect
    batch_out,        \* how the "Generate ZIP" block ended
    zip_file,         \* the "Download ZIP" button: file name and entries
    batch_cdfs,       \* the cdf of every client the batch loop reached
    render_arg,       \* the client_df of the last build_client_pdf_bytes call
    plot_df,          \* its pie slices
    colors            \* its palette

pureVars == <<cell, norm_out, amount, formatted>>

appVars == <<raw, df, selected_client, client_df, preview_out, selected_clients,
             batch_out, zip_file, batch_cdfs, render_arg, plot_df, colors>>

vars == <<cell, norm_out, amount, formatted, raw, df, selected_client, client_df,
          preview_out, selected_clients, batch_out, zip_file, batch_cdfs,
          render_arg, plot_df, colors>>

(***************************************************************************)
(* Text helpers (str.replace, str.strip, str.lower).                       *)
(***************************************************************************)
RECURSIVE RemoveChar(_, _)
RemoveChar(s, ch) ==
    IF s = <<>> THEN <<>>
    ELSE IF Head(s) = ch THEN RemoveChar(Tail(s), ch)
    ELSE <<Head(s)>> \o RemoveChar(Tail(s), ch)

RECURSIVE LStrip(_)
LStrip(s) ==
    IF s # <<>> /\ Head(s) = " " THEN LStrip(Tail(s)) ELSE s

RECURSIVE RStrip(_)
RStrip(s) ==
    IF s # <<>> /\ s[Len(s)] = " " THEN RStrip(SubSeq(s, 1, Len(s) - 1)) ELSE s

Strip(s) == RStrip(LStrip(s))

UpperLetters ==
    <<"A","B","C","D","E","F","G","H","I","J","K","L","M",
      "N","O","P","Q","R","S","T","U","V","W","X","Y","Z">>

LowerLetters ==
    <<"a","b","c","d","e","f","g","h","i","j","k","l","m",
      "n","o","p","q","r","s","t","u","v","w","x","y","z">>

LowerChar(c) ==
    IF \E i \in DOMAIN UpperLetters : UpperLetters[i] = c
    THEN LowerLetters[CHOOSE i \in DOMAIN UpperLetters : UpperLetters[i] = c]
    ELSE c

Lower(s) == [i \in DOMAIN s |-> LowerChar(s[i])]

Digits == <<"0","1","2","3","4","5","6","7","8","9">>

IsDigit(c) == \E i \in DOMAIN Digits : Digits[i] = c

DigitVal(c) == (CHOOSE i \in DOMAIN Digits : Digits[i] = c) - 1

AllDigits(s) == \A i \in DOMAIN s : IsDigit(s[i])

RECURSIVE DigitsToInt(_)
DigitsToInt(s) ==
    IF s = <<>> THEN 0
    ELSE 10 * DigitsToInt(SubSeq(s, 1, Len(s) - 1)) + DigitVal(s[Len(s)])

RECURSIVE IntToDigits(_)
IntToDigits(n) ==
    IF n < 10 THEN <<Digits[n + 1]>>
    ELSE IntToDigits(n \div 10) \o <<Digits[(n % 10) + 1]>>

IndexOf(s, ch) ==
    IF \E i \in DOMAIN s : s[i] = ch
    THEN CHOOSE i \in DOMAIN s : s[i] = ch /\ \A j \in 1..(i - 1) : s[j] # ch
    ELSE 0

(***************************************************************************)
(* Floats.                                                                 *)
(***************************************************************************)
RECURSIVE Canon(_, _)
Canon(m, d) ==
    IF d > 0 /\ m % 10 = 0 THEN Canon(m \div 10, d - 1)
    ELSE [k |-> "fin", m |-> m, d |-> d]

Fin(n) == Canon(n, 0)

Zero == Fin(0)

NaN == [k |-> "nan", m |-> 0, d |-> 0]

Inf(sign) == [k |-> "inf", m |-> sign, d |-> 0]

ParseError == [k |-> "error", m |-> 0, d |-> 0]

IsFinite(v) == v.k = "fin"

Neg(v) == IF v.k = "nan" THEN v ELSE [v EXCEPT !.m = 0 - v.m]

(***************************************************************************)
(* float(x) of a stripped text over the alphabet of the model: an optional *)
(* sign, then inf, infinity or nan in any letter case, or decimal digits   *)
(* with at most one point and at least one digit.  Exponents, underscores  *)
(* and non-ASCII digits are not in the alphabet.                           *)
(***************************************************************************)
Txt_inf == <<"i","n","f">>
Txt_infinity == <<"i","n","f","i","n","i","t","y">>
Txt_nan == <<"n","a","n">>
Txt_None == <<"N","o","n","e">>

PyFloatUnsigned(s) ==
    LET low == Lower(s)
        p == IndexOf(s, ".")
        ip == IF p = 0 THEN s ELSE SubSeq(s, 1, p - 1)
        fp == IF p = 0 THEN <<>> ELSE SubSeq(s, p + 1, Len(s))
    IN  IF low = Txt_inf \/ low = Txt_infinity THEN Inf(1)
        ELSE IF low = Txt_nan THEN NaN
        ELSE IF AllDigits(ip) /\ AllDigits(fp) /\ Len(ip) + Len(fp) > 0
             THEN Canon(DigitsToInt(ip \o fp), Len(fp))
        ELSE ParseError

PyFloat(s) ==
    IF s # <<>> /\ (Head(s) = "-" \/ Head(s) = "+")
    THEN LET u == PyFloatUnsigned(Tail(s))
         IN  IF u.k = "error" \/ Head(s) = "+" THEN u ELSE Neg(u)
    ELSE PyFloatUnsigned(s)

(***************************************************************************)
(* clean_number: drop the rupee sign and the commas, strip, and float()    *)
(* unless the text is "", "nan" or "None"; any exception gives 0.0.        *)
(***************************************************************************)
CleanText(x) == Strip(RemoveChar(RemoveChar(x, "Rs"), ","))

clean_number(x) ==
    LET t == CleanText(x)
    IN  IF t \in {<<>>, Txt_nan, Txt_None} THEN Zero
        ELSE IF PyFloat(t).k = "error" THEN Zero
        ELSE PyFloat(t)

(***************************************************************************)
(* The load: read_excel(dtype=str) gives a cell's text, or a missing value *)
(* for an empty cell and for the texts pandas reads as NA by default;      *)
(* fillna("0") turns a missing value into "0"; replace([...], "0") turns a *)
(* cell that is exactly one of the listed placeholders into "0".           *)
(***************************************************************************)
Missing == <<"<NA>">>

PandasNaTexts ==
    { <<>>,
      <<"#","N","/","A">>,
      <<"#","N","/","A"," ","N","/","A">>,
      <<"#","N","A">>,
      <<"-","1",".","#","I","N","D">>,
      <<"-","1",".","#","Q","N","A","N">>,
      <<"-","N","a","N">>,
      <<"-","n","a","n">>,
      <<"1",".","#","I","N","D">>,
      <<"1",".","#","Q","N","A","N">>,
      <<"<","N","A",">">>,
      <<"N","/","A">>,
      <<"N","A">>,
      <<"N","U","L","L">>,
      <<"N","a","N">>,
      <<"N","o","n","e">>,
      <<"n","/","a">>,
      <<"n","a","n">>,
      <<"n","u","l","l">> }

read_excel_cell(text) == IF text \in PandasNaTexts THEN Missing ELSE text

Txt_0 == <<"0">>

Placeholders ==
    { <<"N","A">>, <<"N",".","A">>, <<"N","/","A">>,
      <<"n","a">>, <<"n",".","a">>, <<"n","/","a">>, <<>>,
      <<"P","e","n","d","i","n","g">>, <<"p","e","n","d","i","n","g">> }

fillna(c) == IF c = Missing THEN Txt_0 ELSE c

replace_placeholders(c) == IF c \in Placeholders THEN Txt_0 ELSE c

LoadCell(c) == clean_number(replace_placeholders(fillna(read_excel_cell(c))))

(***************************************************************************)
(* format_indian_currency.  round() is Python's: to the nearest integer,   *)
(* a tie to the even one.  int(round(x)) raises for an infinity or a NaN.  *)
(***************************************************************************)
RECURSIVE Pow10(_)
Pow10(d) == IF d = 0 THEN 1 ELSE 10 * Pow10(d - 1)

PyRound(v) ==
    LET p == Pow10(v.d)
        q == v.m \div p
        r == v.m % p
    IN  IF 2 * r > p THEN q + 1
        ELSE IF 2 * r < p THEN q
        ELSE IF q % 2 = 0 THEN q ELSE q + 1

IntStr(n) == IF n < 0 THEN <<"-">> \o IntToDigits(0 - n) ELSE IntToDigits(n)

\* The while loop of lines 58-60 and the if of 61-62: the groups as appended.
RECURSIVE PairGroups(_)
PairGroups(remaining) ==
    IF Len(remaining) > 2
    THEN <<SubSeq(remaining, Len(remaining) - 1, Len(remaining))>>
         \o PairGroups(SubSeq(remaining, 1, Len(remaining) - 2))
    ELSE IF remaining # <<>> THEN <<remaining>> ELSE <<>>

\* A mutation of PairGroups: Western grouping, three digits a group.
RECURSIVE TripleGroups(_)
TripleGroups(remaining) ==
    IF Len(remaining) > 3
    THEN <<SubSeq(remaining, Len(remaining) - 2, Len(remaining))>>
         \o TripleGroups(SubSeq(remaining, 1, Len(remaining) - 3))
    ELSE IF remaining # <<>> THEN <<remaining>> ELSE <<>>

LeadingGroups(remaining) == PairGroups(remaining)

Reverse(s) == [i \in DOMAIN s |-> s[Len(s) + 1 - i]]

\* ','.join(groups) + ','
RECURSIVE JoinComma(_)
JoinComma(groups) ==
    IF groups = <<>> THEN <<>>
    ELSE Head(groups) \o <<",">> \o JoinComma(Tail(groups))

RupeePrefix == <<"Rs", " ">>

FormatError == <<"<raised>">>

format_indian_currency(a) ==
    IF ~IsFinite(a) THEN FormatError
    ELSE IF a = Zero THEN RupeePrefix \o <<"0">>
    ELSE LET amount_str == IntStr(PyRound(a))
             n == Len(amount_str)
         IN  IF n <= 3 THEN RupeePrefix \o amount_str
             ELSE RupeePrefix
                  \o JoinComma(Reverse(LeadingGroups(SubSeq(amount_str, 1, n - 3))))
                  \o SubSeq(amount_str, n - 2, n)

Unset == [k |-> "unset", m |-> 0, d |-> 0]

NoText == <<"<unset>">>

(***************************************************************************)
(* Float arithmetic of the allocation: Series.sum() (NaN skipped), > 0,    *)
(* and (value / total * 100).round(2), the rounding a tie to the even      *)
(* hundredth as numpy's rint does.                                         *)
(***************************************************************************)
Range(f) == {f[i] : i \in DOMAIN f}

Max(a, b) == IF a >= b THEN a ELSE b

Min(a, b) == IF a <= b THEN a ELSE b

Abs(n) == IF n < 0 THEN 0 - n ELSE n

FAdd(a, b) ==
    IF a.k = "nan" \/ b.k = "nan" THEN NaN
    ELSE IF a.k = "inf" /\ b.k = "inf" THEN (IF a.m = b.m THEN a ELSE NaN)
    ELSE IF a.k = "inf" THEN a
    ELSE IF b.k = "inf" THEN b
    ELSE LET dd == Max(a.d, b.d)
         IN  Canon(a.m * Pow10(dd - a.d) + b.m * Pow10(dd - b.d), dd)

RECURSIVE PdSum(_)
PdSum(values) ==
    IF values = <<>> THEN Zero
    ELSE LET rest == PdSum(SubSeq(values, 1, Len(values) - 1))
             last == values[Len(values)]
         IN  IF last.k = "nan" THEN rest ELSE FAdd(rest, last)

Gt0(v) == (v.k = "fin" /\ v.m > 0) \/ (v.k = "inf" /\ v.m = 1)

\* floor(a * 10^places / b) and what is left over, digit by digit, so that no
\* product leaves the 32-bit integers of TLC
RECURSIVE LongDiv(_, _, _)
LongDiv(a, b, places) ==
    IF places = 0 THEN [q |-> a \div b, r |-> a % b]
    ELSE LET p == LongDiv(a, b, places - 1)
         IN  [q |-> p.q * 10 + (p.r * 10) \div b, r |-> (p.r * 10) % b]

\* a / b * 100 in hundredths, a tie rounded to the even hundredth
RoundHalfEven(a, b) ==
    LET p == LongDiv(a, b, 4)
    IN  IF 2 * p.r > b THEN p.q + 1
        ELSE IF 2 * p.r < b THEN p.q
        ELSE IF p.q % 2 = 0 THEN p.q ELSE p.q + 1

\* (v / total * 100).round(2), for a total that is > 0
PctOf(v, total) ==
    IF v.k = "nan" THEN NaN
    ELSE IF total.k = "inf" THEN (IF v.k = "inf" THEN NaN ELSE Zero)
    ELSE IF v.k = "inf" THEN v
    ELSE LET dd == Max(v.d, total.d)
             a == v.m * Pow10(dd - v.d)
             b == total.m * Pow10(dd - total.d)
         IN  Canon(RoundHalfEven(a, b), 2)

(***************************************************************************)
(* The load of the sheet (lines 173-180).  A sheet is its asset columns    *)
(* (df.columns[1:]) and its rows: the client name of column 0 and a cell   *)
(* per asset column.                                                       *)
(***************************************************************************)
NoFile == [columns |-> <<>>, rows |-> <<[name |-> <<"<no file>">>, cells |-> <<>>]>>]

NoDf == [columns |-> <<>>, rows |-> <<[name |-> <<"<no df>">>, vals |-> <<>>]>>]

NameNotBlank(r) == Strip(r.name) # <<>>

LoadDataset(sheet) ==
    LET loaded ==
            [i \in DOMAIN sheet.rows |->
                [name |-> replace_placeholders(fillna(read_excel_cell(sheet.rows[i].name))),
                 vals |-> [j \in DOMAIN sheet.rows[i].cells |->
                              LoadCell(sheet.rows[i].cells[j])]]]
    IN  [columns |-> sheet.columns, rows |-> SelectSeq(loaded, NameNotBlank)]

client_list(d) == [i \in DOMAIN d.rows |-> d.rows[i].name]

\* df[df.iloc[:,0] == name].iloc[0]
FirstRow(d, name) ==
    d.rows[CHOOSE i \in DOMAIN d.rows :
              d.rows[i].name = name /\ \A j \in 1..(i - 1) : d.rows[j].name # name]

\* A mutation of FirstRow: the last row of that name.
LastRow(d, name) ==
    d.rows[CHOOSE i \in DOMAIN d.rows :
              d.rows[i].name = name
              /\ \A j \in (i + 1)..Len(d.rows) : d.rows[j].name # name]

(***************************************************************************)
(* The allocation rows: of the preview (lines 187-192) and of the batch    *)
(* loop (lines 210-215), which the source writes out twice.                *)
(***************************************************************************)
Txt_Total == <<"T","o","t","a","l">>

Txt_total == <<"t","o","t","a","l">>

Hundred == Fin(100)

\* A mutation of TotalRow: the Total row's percentage recomputed from the total.
TotalRowRecomputed(total) ==
    <<[type |-> Txt_Total, value |-> total,
       pct |-> IF Gt0(total) THEN PctOf(total, total) ELSE Zero]>>

TotalRow(total) == <<[type |-> Txt_Total, value |-> total, pct |-> Hundred]>>

PreviewAlloc(d, name) ==
    LET row == FirstRow(d, name)
        total_value == PdSum(row.vals)
    IN  [i \in DOMAIN row.vals |->
            [type |-> d.columns[i], value |-> row.vals[i],
             pct |-> IF Gt0(total_value) THEN PctOf(row.vals[i], total_value)
                     ELSE Zero]]
        \o TotalRow(total_value)

\* A mutation of BatchAlloc: the copy of the block takes the last row of that
\* name (.iloc[-1]) where the preview takes the first.
BatchAllocDrifted(d, cname) ==
    LET crow == LastRow(d, cname)
        ctotal == PdSum(crow.vals)
    IN  [i \in DOMAIN crow.vals |->
            [type |-> d.columns[i], value |-> crow.vals[i],
             pct |-> IF Gt0(ctotal) THEN PctOf(crow.vals[i], ctotal) ELSE Zero]]
        \o TotalRow(ctotal)

BatchAlloc(d, cname) ==
    LET crow == FirstRow(d, cname)
        ctotal == PdSum(crow.vals)
    IN  [i \in DOMAIN crow.vals |->
            [type |-> d.columns[i], value |-> crow.vals[i],
             pct |-> IF Gt0(ctotal) THEN PctOf(crow.vals[i], ctotal) ELSE Zero]]
        \o TotalRow(ctotal)

(***************************************************************************)
(* build_client_pdf_bytes: the pie's rows and palette, the table rows of   *)
(* build_unified_html, and the engine, which may fail.                     *)
(***************************************************************************)
\* A mutation of NotTotalRow: the comparison made without lower().
NotTotalRowCased(r) == r.type # Txt_Total

NotTotalRow(r) == Lower(r.type) # Txt_total

PositiveRow(r) == Gt0(r.value)

PlotRows(cdf) == SelectSeq(SelectSeq(cdf, NotTotalRow), PositiveRow)

Palette ==
    <<"#d65a8d", "#d4b483", "#274472", "#c0c0c0", "#3d6ba0",
      "#f5e6d3", "#5f84ce", "#a8dadc", "#f2a7bb">>

\* colors[:max(1, len(plot_df))]
PlotColors(rows) == SubSeq(Palette, 1, Min(Len(Palette), Max(1, Len(rows))))

build_unified_html(cdf) ==
    [i \in DOMAIN cdf |->
        [asset |-> cdf[i].type,
         formatted_value |-> format_indian_currency(cdf[i].value),
         allocation |-> cdf[i].pct,
         strong |-> cdf[i].type = Txt_Total]]

\* format_indian_currency raises inside build_unified_html
HtmlRaises(cdf) ==
    \E r \in Range(build_unified_html(cdf)) : r.formatted_value = FormatError

\* build_client_pdf_bytes returns bytes; engine_ok is whether matplotlib and
\* WeasyPrint (with the images under TEMPLATE_DIR) do their part
RenderOk(cdf, engine_ok) == engine_ok /\ ~HtmlRaises(cdf)

Txt_Report_pdf == <<"_","R","e","p","o","r","t",".","p","d","f">>

Txt_Client_Reports_zip ==
    <<"C","l","i","e","n","t","_","R","e","p","o","r","t","s",".","z","i","p">>

ReportName(cname) == cname \o Txt_Report_pdf

(***************************************************************************)
(* One run of the script.  Streamlit runs it top to bottom after every     *)
(* interaction: the load, the preview of the selected client, and, when    *)
(* "Generate ZIP" was the interaction, the batch.                          *)
(***************************************************************************)
NoClient == <<"<None>">>

NoRows == <<[type |-> <<"<no rows>">>, value |-> Unset, pct |-> Unset]>>

NoPreview == [kind |-> "none", file_name |-> <<>>]

NoZip == [file_name |-> <<>>, entries |-> << <<"<no zip>">> >>]

\* lines 185-200: [client_df, out, rendered]
RunPreview(d, sel, engine_ok) ==
    IF sel = NoClient
    THEN [client_df |-> NoRows, out |-> NoPreview, rendered |-> FALSE]
    ELSE LET cdf == PreviewAlloc(d, sel)
         IN  [client_df |-> cdf,
              out |-> IF RenderOk(cdf, engine_ok)
                      THEN [kind |-> "pdf", file_name |-> ReportName(sel)]
                      ELSE [kind |-> "error", file_name |-> <<>>],
              rendered |-> TRUE]

\* lines 209-217: the loop from client i on; an exception of
\* build_client_pdf_bytes leaves the loop and the script
RECURSIVE BatchLoop(_, _, _, _, _, _)
BatchLoop(d, sel, oks, i, entries, cdfs) ==
    IF i > Len(sel) THEN [out |-> "zip", entries |-> entries, cdfs |-> cdfs]
    ELSE LET cdf == BatchAlloc(d, sel[i])
         IN  IF RenderOk(cdf, oks[i])
             THEN BatchLoop(d, sel, oks, i + 1,
                            Append(entries, ReportName(sel[i])),
                            Append(cdfs, [cname |-> sel[i], rows |-> cdf]))
             ELSE [out |-> "exception", entries |-> entries,
                   cdfs |-> Append(cdfs, [cname |-> sel[i], rows |-> cdf])]

\* A mutation of HasSelection: the guard of line 206 dropped.
AnySelection(sel) == TRUE

HasSelection(sel) == sel # <<>>

\* lines 205-220
RunBatch(d, sel, oks) ==
    IF HasSelection(sel) THEN BatchLoop(d, sel, oks, 1, <<>>, <<>>)
    ELSE [out |-> "warning", entries |-> <<>>, cdfs |-> <<>>]

\* what st.multiselect can return: options of client_list, none twice
Selections(d) ==
    LET names == Range(client_list(d))
    IN  { s \in UNION { [1..n -> names] : n \in 0..Cardinality(names) } :
            \A i, j \in DOMAIN s : i # j => s[i] # s[j] }

\* the render whose chart the state shows: the batch's last one, else the preview's
LastRendered(p, b) ==
    IF b.cdfs # <<>> THEN b.cdfs[Len(b.cdfs)].rows ELSE p.client_df

IdleApp ==
    /\ raw = NoFile
    /\ df = NoDf
    /\ selected_client = NoClient
    /\ client_df = NoRows
    /\ preview_out = NoPreview
    /\ selected_clients = <<>>
    /\ batch_out = "none"
    /\ zip_file = NoZip
    /\ batch_cdfs = <<>>
    /\ render_arg = NoRows
    /\ plot_df = <<>>
    /\ colors = <<>>

IdlePure ==
    /\ cell = <<>>
    /\ norm_out = Unset
    /\ amount = Zero
    /\ formatted = NoText

Init == IdleApp /\ IdlePure

SetPreview(p) ==
    /\ client_df' = p.client_df
    /\ preview_out' = p.out

SetChart(rows) ==
    \E slices \in {IF rows = NoRows THEN <<>> ELSE PlotRows(rows)} :
        /\ render_arg' = rows
        /\ plot_df' = slices
        /\ colors' = IF rows = NoRows THEN <<>> ELSE PlotColors(slices)

\* a file is uploaded: the run loads it and previews the first client.  Only
\* the first upload is an action: a later one starts the script over with the
\* new file and reaches the states a first upload of that file reaches.
Upload(sheets) ==
    /\ raw = NoFile
    /\ \E sheet \in sheets, engine_ok \in BOOLEAN :
        \E d \in {LoadDataset(sheet)} :
        \E sel \in {IF d.rows = <<>> THEN NoClient ELSE client_list(d)[1]} :
        \E p \in {RunPreview(d, sel, engine_ok)} :
            /\ raw' = sheet
            /\ df' = d
            /\ selected_client' = sel
            /\ SetPreview(p)
            /\ SetChart(p.client_df)
            /\ selected_clients' = <<>>
            /\ batch_out' = "none"
            /\ zip_file' = NoZip
            /\ batch_cdfs' = <<>>
            /\ UNCHANGED pureVars

\* another client is picked in the selectbox: the run previews it
SelectClient ==
    /\ raw # NoFile
    /\ \E sel \in Range(client_list(df)), engine_ok \in BOOLEAN :
        \E p \in {RunPreview(df, sel, engine_ok)} :
            /\ selected_client' = sel
            /\ SetPreview(p)
            /\ SetChart(p.client_df)
            /\ batch_out' = "none"
            /\ zip_file' = NoZip
            /\ batch_cdfs' = <<>>
            /\ UNCHANGED <<raw, df, selected_clients>>
            /\ UNCHANGED pureVars

\* "Generate ZIP" is pressed with some selection: the run previews, then batches
ClickGenerate ==
    /\ raw # NoFile
    /\ \E sel \in Selections(df), engine_ok \in BOOLEAN :
        \E oks \in [1..Len(sel) -> BOOLEAN] :
        \E p \in {RunPreview(df, selected_client, engine_ok)} :
        \E b \in {RunBatch(df, sel, oks)} :
        \E last \in {LastRendered(p, b)} :
                /\ selected_clients' = sel
                /\ SetPreview(p)
                /\ batch_out' = b.out
                /\ zip_file' = IF b.out = "zip"
                               THEN [file_name |-> Txt_Client_Reports_zip,
                                     entries |-> b.entries]
                               ELSE NoZip
                /\ batch_cdfs' = b.cdfs
                /\ SetChart(last)
                /\ UNCHANGED <<raw, df, selected_client>>
                /\ UNCHANGED pureVars

(***************************************************************************)
(* SpecNorm: every cell text up to MaxCellLen characters of NormAlphabet,  *)
(* and the texts of NormCorpus, goes through the load and clean_number.    *)
(***************************************************************************)
MaxCellLen == 3

NormAlphabet ==
    {"Rs", ",", " ", "-", ".", "0", "1", "5", "n", "a", "N", "A", "/", "i", "f"}

NormCorpus ==
    { <<"N","a","N">>, <<"n","u","l","l">>,
      <<"Rs","1",",","2","3","4",".","5","0">>,
      <<"P","e","n","d","i","n","g">>, <<"p","e","n","d","i","n","g">>,
      <<"P","E","N","D","I","N","G">>, <<" ","P","e","n","d","i","n","g"," ">>,
      <<"N","o","n","e">>, <<"I","n","f","i","n","i","t","y">>,
      <<"-","5","0","0">>, <<"Rs"," ","n","/","a">>, <<"Rs","n","a","n">>,
      <<"1","2"," ","3","4">>, <<"1",".","2",".","3">> }

CellInputs(max) ==
    NormCorpus \cup UNION { [1..n -> NormAlphabet] : n \in 0..max }

InitNorm ==
    /\ cell \in CellInputs(MaxCellLen)
    /\ norm_out = Unset
    /\ amount = Zero
    /\ formatted = NoText
    /\ IdleApp

Normalize ==
    /\ norm_out = Unset
    /\ norm_out' = LoadCell(cell)
    /\ UNCHANGED <<cell, amount, formatted>>
    /\ UNCHANGED appVars

NextNorm == Normalize

SpecNorm == InitNorm /\ [][NextNorm]_vars

(***************************************************************************)
(* SpecFmt: format_indian_currency on non-negative amounts: the halves     *)
(* h/2 for h up to MaxHalves, scaled by each of FmtScales, and FmtCorpus.  *)
(***************************************************************************)
MaxHalves == 60

FmtScales == {1, 999, 99999}

FmtCorpus == {Fin(999), Fin(1000), Fin(100000), Fin(1234567), Fin(123456789)}

FmtAmounts ==
    FmtCorpus \cup { Canon(5 * h * sc, 1) : h \in 0..MaxHalves, sc \in FmtScales }

InitFmt ==
    /\ amount \in FmtAmounts
    /\ formatted = NoText
    /\ cell = <<>>
    /\ norm_out = Unset
    /\ IdleApp

Format ==
    /\ formatted = NoText
    /\ formatted' = format_indian_currency(amount)
    /\ UNCHANGED <<cell, norm_out, amount>>
    /\ UNCHANGED appVars

NextFmt == Format

SpecFmt == InitFmt /\ [][NextFmt]_vars

(***************************************************************************)
(* The sheets of the three specifications of the application.              *)
(***************************************************************************)
Txt_Acme == <<"A","c","m","e">>

Txt_Beta == <<"B","e","t","a">>

Txt_TOTAL == <<"T","O","T","A","L">>

Txt_Rs50000 == <<"Rs","5","0",",","0","0","0">>

Txt_Pending == <<"P","e","n","d","i","n","g">>

Txt_minus500 == <<"-","5","0","0">>

\* the asset columns Fund1, Fund2, ...
FundLabel(i) == <<"F","u","n","d">> \o IntToDigits(i)

FundHeader(n) == [i \in 1..n |-> FundLabel(i)]

\* the same, one column of positions `at` relabelled with one of `labels`
Headers(n, at, labels) ==
    {FundHeader(n)}
    \cup { [FundHeader(n) EXCEPT ![j] = t] : j \in at \cap (1..n), t \in labels }

\* Spec: up to MaxClients rows of two asset columns
MaxClients == 2

ClientNames == {Txt_Acme, Txt_Beta}

AppCellRows ==
    { <<Txt_Rs50000, Txt_Rs50000>>, <<Txt_Rs50000, Txt_Pending>>,
      <<Txt_inf, Txt_Rs50000>> }

AppSheets(max) ==
    { [columns |-> FundHeader(2), rows |-> rs] :
        rs \in UNION { [1..n -> [name : ClientNames, cells : AppCellRows]] :
                         n \in 0..max } }

\* SpecAlloc: one client, up to MaxCols asset columns, one of them maybe "Total"
MaxCols == 3

AllocCells == {Txt_Rs50000, Txt_Pending, Txt_minus500, Txt_inf, <<"1">>}

FiniteCells == AllocCells \ {Txt_inf}

AllocSheets(max, cells) ==
    UNION { { [columns |-> h, rows |-> <<[name |-> Txt_Acme, cells |-> cs]>>] :
                h \in Headers(n, 1..n, {Txt_Total}), cs \in [1..n -> cells] } :
            n \in 0..max }

\* SpecChart: one client, up to MaxChartCols asset columns, the first or the
\* last maybe a spelling of "Total"; the first two cells and the last are zero
\* or positive (the first maybe negative or infinite), the others positive
MaxChartCols == 11

ChartCells == {Txt_Pending, <<"5">>}

ChartFirstCells == ChartCells \cup {Txt_minus500, Txt_inf}

ChartSheets(max) ==
    UNION { { [columns |-> h, rows |-> <<[name |-> Txt_Acme, cells |-> cs]>>] :
                h \in Headers(n, {1, n}, {Txt_Total, Txt_TOTAL, Txt_total}),
                cs \in { [i \in 1..n |-> IF i = 1 THEN c[1]
                                          ELSE IF i = 2 THEN c[2]
                                          ELSE IF i = n THEN c[3] ELSE <<"5">>] :
                         c \in ChartFirstCells \X ChartCells \X ChartCells } } :
            n \in 0..max }

Next == Upload(AppSheets(MaxClients)) \/ SelectClient \/ ClickGenerate

Spec == Init /\ [][Next]_vars

NextAlloc == Upload(AllocSheets(MaxCols, AllocCells)) \/ SelectClient \/ ClickGenerate

SpecAlloc == Init /\ [][NextAlloc]_vars

\* SpecAllocFinite: the same with no cell that float() reads as an infinity
NextAllocFinite ==
    Upload(AllocSheets(MaxCols, FiniteCells)) \/ SelectClient \/ ClickGenerate

SpecAllocFinite == Init /\ [][NextAllocFinite]_vars

NextChart == Upload(ChartSheets(MaxChartCols)) \/ SelectClient \/ ClickGenerate

SpecChart == Init /\ [][NextChart]_vars

(***************************************************************************)
(* The claims.                                                             *)
(***************************************************************************)
PlaceholderTokens ==
    { <<"n","a">>, <<"n",".","a">>, <<"n","/","a">>,
      <<"p","e","n","d","i","n","g">> }

Unsigned(t) == IF t # <<>> /\ Head(t) \in {"-", "+"} THEN Tail(t) ELSE t

\* a decimal number: an optional sign, digits, at most one point among them
IsDecimalText(t) ==
    LET u == Unsigned(t)
        ds == RemoveChar(u, ".")
    IN  /\ ds # <<>>
        /\ AllDigits(ds)
        /\ Len(u) - Len(ds) <= 1

DecimalOf(t) ==
    LET u == Unsigned(t)
        ds == RemoveChar(u, ".")
        p == IndexOf(u, ".")
        v == Canon(DigitsToInt(ds), IF p = 0 THEN 0 ELSE Len(u) - p)
    IN  IF Head(t) = "-" THEN Neg(v) ELSE v

\* C1: the load followed by clean_number never raises; it gives 0.0 for a text
\* that, without rupee sign, commas and surrounding blanks, is empty or one of
\* na, n.a, n/a, pending in any letter case, and 0.0 for a text that is no
\* decimal number; otherwise it gives the number the text spells.
C1_NormalizationTotal ==
    norm_out # Unset =>
        LET t == CleanText(cell)
        IN  /\ norm_out.k \in {"fin", "inf", "nan"}
            /\ (t = <<>> \/ Lower(t) \in PlaceholderTokens) => norm_out = Zero
            /\ ~IsDecimalText(t) => norm_out = Zero
            /\ IsDecimalText(t) => norm_out = DecimalOf(t)

\* every allocation table the state holds: the preview's and the batch's
Tables ==
    (IF client_df = NoRows THEN {} ELSE {client_df})
    \cup { batch_cdfs[i].rows : i \in DOMAIN batch_cdfs }

\* the rows of the asset columns: all but the appended last one
AssetRows(rows) == SubSeq(rows, 1, Len(rows) - 1)

TotalOf(rows) == rows[Len(rows)].value

\* the preview's table against the record of the selected client
AllocAsClaimed(rows, cols, vals) ==
    LET total == PdSum(vals)
    IN  /\ Len(rows) = Len(cols) + 1
        /\ \A i \in DOMAIN cols :
              /\ rows[i].type = cols[i]
              /\ rows[i].value = vals[i]
              /\ rows[i].pct = IF Gt0(total) THEN PctOf(vals[i], total) ELSE Zero
        /\ rows[Len(rows)] = [type |-> Txt_Total, value |-> total, pct |-> Fin(100)]

\* C2: the table has a row per asset column in column order, then the Total
\* row; a row's percent is round(value / total * 100, 2) when total > 0 and 0
\* otherwise; the Total row has the total and 100, also when the total is 0.
C2_AllocationRows ==
    /\ client_df # NoRows =>
          AllocAsClaimed(client_df, df.columns, FirstRow(df, selected_client).vals)
    /\ \A i \in DOMAIN batch_cdfs :
          AllocAsClaimed(batch_cdfs[i].rows, df.columns,
                         FirstRow(df, batch_cdfs[i].cname).vals)

C2_Witness ==
    /\ client_df # NoRows
    /\ Len(client_df) >= 3
    /\ TotalOf(client_df) = Zero
    /\ client_df[Len(client_df)].pct = Fin(100)
    /\ \A i \in DOMAIN AssetRows(client_df) : client_df[i].pct = Zero

Hundredths(v) == v.m * Pow10(2 - v.d)

RECURSIVE SumHundredths(_)
SumHundredths(rows) ==
    IF rows = <<>> THEN 0
    ELSE Hundredths(Head(rows).pct) + SumHundredths(Tail(rows))

\* C3: with at least one asset row and total > 0, the percents of the asset
\* rows sum to 100 within 0.01 a row; with total 0 every such percent is 0.
C3_PercentSum ==
    \A rows \in Tables :
        LET assets == AssetRows(rows)
        IN  assets # <<>> =>
              /\ Gt0(TotalOf(rows)) =>
                    /\ \A i \in DOMAIN assets : IsFinite(assets[i].pct)
                    /\ Abs(SumHundredths(assets) - 10000) <= Len(assets)
              /\ TotalOf(rows) = Zero =>
                    \A i \in DOMAIN assets : assets[i].pct = Zero

\* C4: whatever the asset columns are called, the table has exactly one row of
\* asset type "Total", and its value is the sum of the values of the others.
C4_OneTotalRow ==
    \A rows \in Tables :
        LET totals == {i \in DOMAIN rows : rows[i].type = Txt_Total}
        IN  /\ Cardinality(totals) = 1
            /\ \A i \in totals :
                  rows[i].value
                    = PdSum([j \in 1..(Len(rows) - 1) |->
                               IF j < i THEN rows[j].value ELSE rows[j + 1].value])

\* C5: every row of every table has a value >= 0 and a percent in [0, 100].
C5_RowRanges ==
    \A rows \in Tables : \A i \in DOMAIN rows :
        /\ IsFinite(rows[i].value) /\ rows[i].value.m >= 0
        /\ IsFinite(rows[i].pct)
        /\ rows[i].pct.m >= 0
        /\ Hundredths(rows[i].pct) <= 10000

Txt_Rs_0 == <<"Rs", " ", "0">>

Txt_Rs_999 == <<"Rs", " ", "9", "9", "9">>

Txt_Rs_100000 == <<"Rs", " ", "1", ",", "0", "0", ",", "0", "0", "0">>

Txt_Rs_1234567 == <<"Rs", " ", "1", "2", ",", "3", "4", ",", "5", "6", "7">>

\* C6: for an amount >= 0 the result is the rupee sign, a blank, and the digits
\* of the amount rounded to the nearest integer, a comma before the last three
\* digits and before every pair of digits to their left, none leading; 0 gives
\* "Rs 0", 999 "Rs 999", 100000 "Rs 1,00,000" and 1234567 "Rs 12,34,567".
C6_IndianGrouping ==
    formatted # NoText =>
        LET body == SubSeq(formatted, 3, Len(formatted))
            ds == RemoveChar(body, ",")
            n == DigitsToInt(ds)
            len == Len(body)
        IN  /\ SubSeq(formatted, 1, 2) = <<"Rs", " ">>
            /\ ds # <<>> /\ AllDigits(ds) /\ ds = IntToDigits(n)
            /\ 2 * Abs(amount.m - n * Pow10(amount.d)) <= Pow10(amount.d)
            /\ \A i \in 1..len :
                  (body[i] = ",") <=> (len + 1 - i >= 4 /\ (len + 1 - i) % 3 = 1)
            /\ body[1] # ","
            /\ amount = Zero => formatted = Txt_Rs_0
            /\ amount = Fin(999) => formatted = Txt_Rs_999
            /\ amount = Fin(100000) => formatted = Txt_Rs_100000
            /\ amount = Fin(1234567) => formatted = Txt_Rs_1234567

C6_Witness == amount = Fin(1234567) /\ formatted = Txt_Rs_1234567

\* C7: a failure of the renderer for a client is caught, by the preview and
\* by the batch alike: the run does not end in the exception, and the batch
\* goes on to every other selected client.
C7_RenderFailureContained ==
    /\ batch_out # "exception"
    /\ batch_out \in {"zip", "exception"} => Len(batch_cdfs) = Len(selected_clients)

\* C8: a batch request with no client selected gives the warning and no
\* archive; one with clients selected, every render succeeding, gives the
\* archive Client_Reports.zip with one entry "<client>_Report.pdf" for each
\* selected client in selection order; there is no archive otherwise.
C8_ArchiveIffSelection ==
    /\ (batch_out # "none" /\ selected_clients = <<>>) =>
          (batch_out = "warning" /\ zip_file = NoZip)
    /\ (batch_out \notin {"none", "exception"} /\ selected_clients # <<>>) =>
          zip_file # NoZip
    /\ zip_file # NoZip =>
          /\ selected_clients # <<>>
          /\ zip_file.file_name = Txt_Client_Reports_zip
          /\ zip_file.entries
               = [i \in DOMAIN selected_clients |->
                     selected_clients[i] \o Txt_Report_pdf]

C8_Witness ==
    /\ zip_file # NoZip
    /\ Len(zip_file.entries) = 2
    /\ zip_file.entries[1] = Txt_Beta \o Txt_Report_pdf

Plottable(r) == Gt0(r.value) /\ Lower(r.type) # Txt_total

\* C9: the pie's slices are the rows of value > 0 whose asset type is not
\* "total" in any letter case, in their order; the palette has
\* min(9, max(1, n)) colors for n slices, the first ones of the nine.
C9_PieSlicesAndPalette ==
    render_arg # NoRows =>
        /\ plot_df = SelectSeq(render_arg, Plottable)
        /\ Len(colors) = Min(9, Max(1, Len(plot_df)))
        /\ colors = SubSeq(Palette, 1, Len(colors))

C9_Witness ==
    /\ render_arg # NoRows
    /\ Len(plot_df) >= 10
    /\ Len(colors) = 9
    /\ Len(plot_df) < Len(render_arg) - 1

\* C10: the rows the batch computes for a client are the rows the preview
\* computes for that client, whatever was processed before it; the parsed
\* dataset stays what the load made of the sheet.
C10_BatchMatchesPreview ==
    /\ raw # NoFile => df = LoadDataset(raw)
    /\ \A i \in DOMAIN batch_cdfs :
          /\ batch_cdfs[i].rows = PreviewAlloc(df, batch_cdfs[i].cname)
          /\ batch_cdfs[i].cname = selected_client =>
                batch_cdfs[i].rows = client_df

C10_Witness ==
    /\ Len(batch_cdfs) = 2
    /\ batch_cdfs[2].cname = selected_client
    /\ batch_cdfs[2].rows = client_df
    /\ batch_cdfs[1].rows # client_df

====
